---- MODULE Spec2Model ----
(***************************************************************************)
(* Interactive point selection of pyorc's command line interface:          *)
(* BaseSelect, GcpSelect and AoiSelect of src/pyorc/cli/cli_elements.py.    *)
(*                                                                         *)
(* The selector object is the record `self`; every handler of the class is *)
(* an operator from the object (and the event) to the object after the     *)
(* handler has run, so that a handler that calls another handler is the    *)
(* composition of the two.  An action is one callback run to completion by *)
(* the (single threaded) GUI event loop.                                   *)
(*                                                                         *)
(* Pointer data coordinates (event.xdata, event.ydata) are floats; they    *)
(* are kept here in half-pixel units (21 stands for 10.5).  An optional    *)
(* value is a sequence: <<>> is None, <<v>> is the value v.                *)
(***************************************************************************)
EXTENDS Integers, Sequences, FiniteSets, TLC

\* Largest number of destination points handed to a selector.
MaxDst == 4

\* AoiSelect.required_clicks
AoiRequiredClicks == 4

None == <<>>
Some(v) == <<v>>
Val(o) == o[1]

LEFT == "LEFT"
RIGHT == "RIGHT"
MIDDLE == "MIDDLE"
MouseButton == {LEFT, RIGHT, MIDDLE}

corner_labels == <<"upstream-left", "downstream-left", "downstream-right", "upstream-right">>

\* Pointer positions inside the image axes, in half pixels:
\* (10,10), (10.5,50), (50,49.5), (50.5,10).
Positions == { <<20, 20>>, <<21, 100>>, <<100, 99>>, <<101, 20>> }

\* The events the canvas can deliver: over the image axes (with data
\* coordinates, or without when the inverse transform failed), over the map
\* axes, over a button's axes, or outside every axes.
Events ==
    { [button |-> b, inaxes |-> "ax", xdata |-> Some(q[1]), ydata |-> Some(q[2])] :
        b \in MouseButton, q \in Positions }
    \cup { [button |-> b, inaxes |-> "ax", xdata |-> None, ydata |-> None] : b \in MouseButton }
    \cup { [button |-> b, inaxes |-> "ax_geo", xdata |-> Some(20), ydata |-> Some(20)] : b \in MouseButton }
    \cup { [button |-> b, inaxes |-> "ax_button", xdata |-> Some(1), ydata |-> Some(1)] : b \in MouseButton }
    \cup { [button |-> b, inaxes |-> "none", xdata |-> None, ydata |-> None] : b \in MouseButton }

\* The destination points a caller supplies: n points (x, y, z).
DstOf(n) == [i \in 1..n |-> <<4 + i, 51 + i, 100>>]

DelLast(s) == SubSeq(s, 1, Len(s) - 1)

\* seq[:n]: the first n elements, all of them when there are fewer.
slice_to(s, n) == SubSeq(s, 1, IF n < Len(s) THEN n ELSE Len(s))

\* int(np.round(v)) of the float h/2: round to nearest, ties to the even integer.
np_round(h) ==
    LET q == h \div 2
    IN  IF h % 2 = 0 THEN q
        ELSE IF q % 2 = 0 THEN q ELSE q + 1

\* list(zip(*points))[0:2]: the x column and the y column of a point list.
zip(points) ==
    [x |-> [i \in 1..Len(points) |-> points[i][1]],
     y |-> [i \in 1..Len(points) |-> points[i][2]]]

EmptyData == [x |-> <<>>, y |-> <<>>]

\* np.zeros((0, 2)): a polygon without vertices.
EmptyPolygon == <<>>

VARIABLES self, hist, cmd

vars == <<self, hist, cmd>>

\* ax.annotate(label, xy=...): a text marker.
annotate(label, xy) == [label |-> label, xy |-> xy]

\* click.UsageError of on_close, with the two counts of its message.
UsageError(required, supplied) == [required |-> required, supplied |-> supplied]

(***************************************************************************)
(* Construction                                                            *)
(***************************************************************************)
BaseSelect_init(cls, dst, has_crs) ==
    [cls |-> cls,
     dst |-> dst,
     has_crs |-> has_crs,
     ax_geo_visible |-> FALSE,
     ax_visible |-> TRUE,
     pts_t |-> <<>>,
     button3_active |-> FALSE,
     button3_color |-> "gray",
     press |-> FALSE,
     move |-> FALSE,
     connected |-> {"button_press_event", "button_release_event", "close_event",
                    "motion_notify_event"},
     required_clicks |-> 0,
     src |-> <<>>,
     p |-> EmptyData,
     p_geo |-> zip(dst),
     p_geo_selected |-> EmptyData,
     p_bbox |-> EmptyPolygon,
     p_bbox_geo |-> EmptyPolygon,
     fig_open |-> TRUE,
     raised |-> <<>>,
     n_on_close |-> 0]

AoiSelect_init(dst, has_crs) ==
    [BaseSelect_init("AoiSelect", dst, has_crs) EXCEPT !.p_geo = EmptyData,
                                                       !.required_clicks = AoiRequiredClicks]

GcpSelect_init(dst, has_crs) ==
    [BaseSelect_init("GcpSelect", dst, has_crs) EXCEPT !.required_clicks = Len(dst)]

(***************************************************************************)
(* The camera configuration an AoiSelect is given.  Its code                *)
(* (set_bbox_from_corners, get_bbox) and helpers.xyz_transform are not part *)
(* of the files at hand; they follow the specification's CoordinateTrans-   *)
(* former: the polygon visits the four corners in the order given, and a    *)
(* reprojection maps every point to its image in the other reference        *)
(* system (kept abstract, as a tagged point).                               *)
(***************************************************************************)
bounding_polygon_from_corners(corners) == [i \in 1..Len(corners) |-> corners[i]]

get_bbox_camera(corners) == bounding_polygon_from_corners(corners)

get_bbox_geo(corners) ==
    [i \in 1..Len(corners) |-> <<"world", bounding_polygon_from_corners(corners)[i]>>]

xyz_transform(points) == [i \in 1..Len(points) |-> <<"epsg4326", points[i]>>]

(***************************************************************************)
(* Handlers                                                                *)
(***************************************************************************)
on_close_m_count(s) ==
    LET s1 == [s EXCEPT !.connected = @ \ {"button_press_event", "button_release_event",
                                            "close_event"},
                        !.n_on_close = @ + 1]
        check_length == Len(s1.src) = s1.required_clicks
    IN  IF ~check_length /\ Len(s1.src) > 0
        THEN [s1 EXCEPT !.raised = Append(@, UsageError(s1.required_clicks, Len(s1.src)))]
        ELSE s1

on_close(s) ==
    LET s1 == [s EXCEPT !.connected = @ \ {"button_press_event", "button_release_event",
                                            "close_event"},
                        !.n_on_close = @ + 1]
        check_length == Len(s1.src) = s1.required_clicks
    IN  IF ~check_length
        THEN [s1 EXCEPT !.raised = Append(@, UsageError(s1.required_clicks, Len(s1.src)))]
        ELSE s1

\* plt.close(self.fig) destroys the window, which fires the close_event (and
\* so the connected on_close); then on_close is called once more.  An error
\* raised by the first run ends the handler.
close_window(s, event) ==
    LET s1 == [s EXCEPT !.fig_open = FALSE]
        s2 == IF "close_event" \in s1.connected THEN on_close(s1) ELSE s1
    IN  IF Len(s2.raised) > Len(s1.raised) THEN s2 ELSE on_close(s2)

on_press(s, event) == [s EXCEPT !.press = TRUE, !.move = FALSE]

on_move_m_noop(s, event) == s

on_move(s, event) == IF s.press THEN [s EXCEPT !.move = TRUE] ELSE s

BaseSelect_on_left_click_m_front(s, event) ==
    IF event.xdata # None
    THEN LET s1 == [s EXCEPT !.src = <<<<np_round(Val(event.xdata)),
                                         np_round(Val(event.ydata))>>>> \o @]
             s2 == [s1 EXCEPT !.p = zip(s1.src)]
             pt == annotate(Len(s2.src), <<Val(event.xdata), Val(event.ydata)>>)
         IN  [s2 EXCEPT !.pts_t = Append(@, pt)]
    ELSE s

BaseSelect_on_left_click_m_label0(s, event) ==
    IF event.xdata # None
    THEN LET s1 == [s EXCEPT !.src = Append(@, <<np_round(Val(event.xdata)),
                                                 np_round(Val(event.ydata))>>)]
             s2 == [s1 EXCEPT !.p = zip(s1.src)]
             pt == annotate(Len(s.src), <<Val(event.xdata), Val(event.ydata)>>)
         IN  [s2 EXCEPT !.pts_t = Append(@, pt)]
    ELSE s

BaseSelect_on_left_click(s, event) ==
    IF event.xdata # None
    THEN LET s1 == [s EXCEPT !.src = Append(@, <<np_round(Val(event.xdata)),
                                                 np_round(Val(event.ydata))>>)]
             s2 == [s1 EXCEPT !.p = zip(s1.src)]
             pt == annotate(Len(s2.src), <<Val(event.xdata), Val(event.ydata)>>)
         IN  [s2 EXCEPT !.pts_t = Append(@, pt)]
    ELSE s

\* The plot of the selected points on the map view: p_geo_selected of a
\* GcpSelect, p_geo of an AoiSelect.
map_selected(s) == IF s.cls = "GcpSelect" THEN s.p_geo_selected ELSE s.p_geo

\* The polygon patches after the last corner: the bounding box in camera
\* and in geographic coordinates.
AoiSelect_set_bbox_m_reversed(s) ==
    LET corners == [i \in 1..Len(s.src) |-> s.src[Len(s.src) + 1 - i]]
        bbox_cam == get_bbox_camera(corners)
        bbox_geo == IF s.has_crs THEN xyz_transform(get_bbox_geo(corners))
                    ELSE get_bbox_geo(corners)
    IN  [s EXCEPT !.p_bbox = bbox_cam, !.p_bbox_geo = bbox_geo]

AoiSelect_set_bbox(s) ==
    LET corners == s.src
        bbox_cam == get_bbox_camera(corners)
        bbox_geo == IF s.has_crs THEN xyz_transform(get_bbox_geo(corners))
                    ELSE get_bbox_geo(corners)
    IN  [s EXCEPT !.p_bbox = bbox_cam, !.p_bbox_geo = bbox_geo]

AoiSelect_on_left_click(s, event) ==
    IF event.xdata # None
    THEN LET s1 == [s EXCEPT !.src = Append(@, <<np_round(Val(event.xdata)),
                                                 np_round(Val(event.ydata))>>)]
             s2 == [s1 EXCEPT !.p = zip(s1.src)]
             pt == annotate(corner_labels[Len(s2.src)],
                            <<Val(event.xdata), Val(event.ydata)>>)
             s3 == [s2 EXCEPT !.pts_t = Append(@, pt)]
         IN  IF Len(s3.src) = s3.required_clicks THEN AoiSelect_set_bbox(s3) ELSE s3
    ELSE s

\* self.on_left_click(event): the method of the object's class.
on_left_click(s, event) ==
    IF s.cls = "AoiSelect" THEN AoiSelect_on_left_click(s, event)
    ELSE BaseSelect_on_left_click(s, event)

on_right_click_m_keep_marker(s, event) ==
    IF Len(s.src) > 0
    THEN LET s2 == [s EXCEPT !.src = DelLast(@)]
         IN  IF Len(s2.src) > 0 THEN [s2 EXCEPT !.p = zip(s2.src)]
             ELSE [s2 EXCEPT !.p = EmptyData]
    ELSE s

on_right_click_m_first(s, event) ==
    LET s1 == IF Len(s.pts_t) > 0 THEN [s EXCEPT !.pts_t = DelLast(@)] ELSE s
    IN  IF Len(s1.src) > 0
        THEN LET s2 == [s1 EXCEPT !.src = Tail(@)]
             IN  IF Len(s2.src) > 0 THEN [s2 EXCEPT !.p = zip(s2.src)]
                 ELSE [s2 EXCEPT !.p = EmptyData]
        ELSE s1

on_right_click(s, event) ==
    LET s1 == IF Len(s.pts_t) > 0 THEN [s EXCEPT !.pts_t = DelLast(@)] ELSE s
    IN  IF Len(s1.src) > 0
        THEN LET s2 == [s1 EXCEPT !.src = DelLast(@)]
             IN  IF Len(s2.src) > 0 THEN [s2 EXCEPT !.p = zip(s2.src)]
                 ELSE [s2 EXCEPT !.p = EmptyData]
        ELSE s1

\* The end of BaseSelect.on_click: the Done button follows the point count.
update_button3(s) ==
    IF Len(s.src) = s.required_clicks
    THEN [s EXCEPT !.button3_active = TRUE, !.button3_color = "k"]
    ELSE [s EXCEPT !.button3_active = FALSE, !.button3_color = "grey"]

BaseSelect_on_click_m_le(s, event) ==
    IF s.ax_visible /\ event.inaxes = "ax"
    THEN LET s1 == IF event.button = RIGHT THEN on_right_click(s, event)
                   ELSE IF event.button = LEFT
                        THEN IF Len(s.src) <= s.required_clicks
                             THEN on_left_click(s, event) ELSE s
                        ELSE s
         IN  update_button3(s1)
    ELSE s

BaseSelect_on_click_m_button_left_only(s, event) ==
    IF s.ax_visible /\ event.inaxes = "ax"
    THEN IF event.button = RIGHT THEN on_right_click(s, event)
         ELSE IF event.button = LEFT
              THEN IF Len(s.src) < s.required_clicks
                   THEN update_button3(on_left_click(s, event)) ELSE update_button3(s)
              ELSE s
    ELSE s

BaseSelect_on_click_m_button_le(s, event) ==
    IF s.ax_visible /\ event.inaxes = "ax"
    THEN LET s1 == IF event.button = RIGHT THEN on_right_click(s, event)
                   ELSE IF event.button = LEFT
                        THEN IF Len(s.src) < s.required_clicks
                             THEN on_left_click(s, event) ELSE s
                        ELSE s
         IN  IF Len(s1.src) <= s1.required_clicks
             THEN [s1 EXCEPT !.button3_active = TRUE, !.button3_color = "k"]
             ELSE [s1 EXCEPT !.button3_active = FALSE, !.button3_color = "grey"]
    ELSE s

BaseSelect_on_click_m_no_visible(s, event) ==
    IF event.inaxes = "ax"
    THEN LET s1 == IF event.button = RIGHT THEN on_right_click(s, event)
                   ELSE IF event.button = LEFT
                        THEN IF Len(s.src) < s.required_clicks
                             THEN on_left_click(s, event) ELSE s
                        ELSE s
         IN  update_button3(s1)
    ELSE s

BaseSelect_on_click_m_no_inaxes(s, event) ==
    IF s.ax_visible
    THEN LET s1 == IF event.button = RIGHT THEN on_right_click(s, event)
                   ELSE IF event.button = LEFT
                        THEN IF Len(s.src) < s.required_clicks
                             THEN on_left_click(s, event) ELSE s
                        ELSE s
         IN  update_button3(s1)
    ELSE s

BaseSelect_on_click(s, event) ==
    IF s.ax_visible /\ event.inaxes = "ax"
    THEN LET s1 == IF event.button = RIGHT THEN on_right_click(s, event)
                   ELSE IF event.button = LEFT
                        THEN IF Len(s.src) < s.required_clicks
                             THEN on_left_click(s, event) ELSE s
                        ELSE s
         IN  update_button3(s1)
    ELSE s

AoiSelect_on_click_m_keep_polygon(s, event) == BaseSelect_on_click(s, event)

AoiSelect_on_click(s, event) ==
    LET s1 == BaseSelect_on_click(s, event)
    IN  IF ~(Len(s1.src) = s1.required_clicks)
        THEN [s1 EXCEPT !.p_bbox = EmptyPolygon, !.p_bbox_geo = EmptyPolygon]
        ELSE s1

GcpSelect_on_click_m_keeps_last(s, event) ==
    LET s1 == BaseSelect_on_click(s, event)
        dst_sel == slice_to(s1.dst, Len(s1.src))
    IN  IF Len(dst_sel) > 0 THEN [s1 EXCEPT !.p_geo_selected = zip(dst_sel)]
        ELSE s1

GcpSelect_on_click(s, event) ==
    LET s1 == BaseSelect_on_click(s, event)
        dst_sel == slice_to(s1.dst, Len(s1.src))
    IN  IF Len(dst_sel) > 0 THEN [s1 EXCEPT !.p_geo_selected = zip(dst_sel)]
        ELSE [s1 EXCEPT !.p_geo_selected = EmptyData]

\* self.on_click(event): the method of the object's class.
on_click(s, event) ==
    IF s.cls = "AoiSelect" THEN AoiSelect_on_click(s, event)
    ELSE GcpSelect_on_click(s, event)

on_release_m_ignores_move(s, event) ==
    LET s1 == IF s.press THEN on_click(s, event) ELSE s
    IN  [s1 EXCEPT !.press = FALSE, !.move = FALSE]

on_release(s, event) ==
    LET s1 == IF s.press /\ ~s.move THEN on_click(s, event) ELSE s
    IN  [s1 EXCEPT !.press = FALSE, !.move = FALSE]

switch_to_ax_m_keeps_geo(s, event) == [s EXCEPT !.ax_visible = TRUE]

switch_to_ax(s, event) == [s EXCEPT !.ax_visible = TRUE, !.ax_geo_visible = FALSE]

switch_to_ax_geo_m_clears_polygon(s, event) ==
    [s EXCEPT !.ax_visible = FALSE, !.ax_geo_visible = TRUE,
              !.p_bbox = EmptyPolygon, !.p_bbox_geo = EmptyPolygon]

switch_to_ax_geo(s, event) == [s EXCEPT !.ax_visible = FALSE, !.ax_geo_visible = TRUE]

(***************************************************************************)
(* History of the session, kept beside the object to state the claims:     *)
(* what the events were, whatever the handlers made of them.               *)
(*   stack    the points of a reference stack: pushed by every accepted    *)
(*            add, popped by every remove                                  *)
(*   leftLog  the pixel positions of the first required_clicks valid       *)
(*            left-clicks, nLeft their number (counted up to               *)
(*            required_clicks + 1), while no right-click came (noRight)    *)
(*   last     what the last release was: "drag" (the pointer had moved),   *)
(*            "add" (an accepted add), "add_undo" (a remove right after an *)
(*            accepted add), "empty_undo" (a right-click with no points),  *)
(*            "undo" (another remove), "outside" (a click the image axes   *)
(*            did not take), "hidden" (a click while the image view is not *)
(*            shown), "full_left" (a left-click with all points there),    *)
(*            else "none"                                                  *)
(*   snap     what could be seen before the release `last` refers to (for  *)
(*            "add_undo": before the add)                                  *)
(*   pressed  a button was pressed and not yet released                    *)
(*   moved    the pointer moved since that press                           *)
(***************************************************************************)
Seen(s) ==
    [src |-> s.src, n_markers |-> Len(s.pts_t), done |-> s.button3_active,
     p_bbox |-> s.p_bbox, p_bbox_geo |-> s.p_bbox_geo]

NoSnap ==
    [src |-> <<>>, n_markers |-> 0, done |-> FALSE,
     p_bbox |-> EmptyPolygon, p_bbox_geo |-> EmptyPolygon]

hist_init ==
    [stack |-> <<>>, leftLog |-> <<>>, nLeft |-> 0, noRight |-> TRUE,
     last |-> "none", snap |-> NoSnap, pressed |-> FALSE, moved |-> FALSE]

hist_press(h) == [h EXCEPT !.pressed = TRUE, !.moved = FALSE]

hist_move(h) == IF h.pressed THEN [h EXCEPT !.moved = TRUE] ELSE h

\* A release that ends a drag: the pointer moved between press and release.
IsDrag(h) == h.pressed /\ h.moved

\* A click the image axes did not take: its inaxes is another axes or none,
\* or it is a left-click without data coordinates.
Outside(event) ==
    event.inaxes # "ax" \/ (event.button = LEFT /\ event.xdata = None)

\* A stationary press-release: no pointer movement since the press.
IsClick(s) == s.press /\ ~s.move

\* A click inside the (visible) image axes.
InImage(s, event) == s.ax_visible /\ event.inaxes = "ax"

ValidLeft(s, event) ==
    IsClick(s) /\ InImage(s, event) /\ event.button = LEFT /\ event.xdata # None

RightClick(s, event) == IsClick(s) /\ InImage(s, event) /\ event.button = RIGHT

PixelOf(event) == <<np_round(Val(event.xdata)), np_round(Val(event.ydata))>>

hist_release(h, s, event) ==
    LET accepted == ValidLeft(s, event) /\ Len(h.stack) < s.required_clicks
        right == RightClick(s, event)
    IN  [stack |-> IF accepted THEN Append(h.stack, PixelOf(event))
                   ELSE IF right /\ Len(h.stack) > 0 THEN DelLast(h.stack)
                   ELSE h.stack,
         leftLog |-> IF right THEN <<>>
                     ELSE IF h.noRight /\ ValidLeft(s, event)
                             /\ Len(h.leftLog) < s.required_clicks
                          THEN Append(h.leftLog, PixelOf(event))
                          ELSE h.leftLog,
         nLeft |-> IF right THEN 0
                   ELSE IF h.noRight /\ ValidLeft(s, event) /\ h.nLeft <= s.required_clicks
                        THEN h.nLeft + 1
                        ELSE h.nLeft,
         noRight |-> h.noRight /\ ~right,
         last |-> IF IsDrag(h) THEN "drag"
                  ELSE IF ~IsClick(s) THEN h.last
                  ELSE IF accepted THEN "add"
                  ELSE IF right /\ h.last = "add" THEN "add_undo"
                  ELSE IF right /\ Len(s.src) = 0 THEN "empty_undo"
                  ELSE IF right THEN "undo"
                  ELSE IF Outside(event) THEN "outside"
                  ELSE IF ~s.ax_visible THEN "hidden"
                  ELSE IF event.button = LEFT /\ Len(s.src) = s.required_clicks
                       THEN "full_left"
                  ELSE "none",
         snap |-> IF IsDrag(h) THEN Seen(s)
                  ELSE IF ~IsClick(s) THEN h.snap
                  ELSE IF accepted THEN Seen(s)
                  ELSE IF right /\ h.last = "add" THEN h.snap
                  ELSE IF right /\ Len(s.src) = 0 THEN NoSnap
                  ELSE IF right \/ Outside(event) \/ ~s.ax_visible THEN Seen(s)
                  ELSE IF event.button = LEFT /\ Len(s.src) = s.required_clicks
                       THEN Seen(s)
                  ELSE NoSnap,
         pressed |-> FALSE,
         moved |-> FALSE]

hist_switch(h) == [h EXCEPT !.last = "none", !.snap = NoSnap]

\* The session is over: no click is the last one any more.
hist_close(h) == [h EXCEPT !.last = "none", !.snap = NoSnap]

(***************************************************************************)
(* The camera_config command of src/pyorc/cli/main.py.  `cmd` holds its     *)
(* arguments and locals (an option not given is None), pc the place it has  *)
(* reached, error the click.UsageError that ended it, service the arguments *)
(* pyorc.service.camera_config was called with.  Water levels are whole     *)
(* metres, the resolution is in centimetres.                               *)
(***************************************************************************)
NoError == [msg |-> "none", supplied |-> 0, required |-> 0]

\* The command not running: a selector used on its own.
cmd_idle ==
    [pc |-> "idle", src |-> None, dst |-> None, z_0 |-> None, h_ref |-> None,
     href |-> None, resolution |-> None, window_size |-> None, shapefile |-> None,
     crs |-> None, crs_gcps |-> None, corners |-> None, gcps |-> None,
     interactive |-> FALSE, error |-> NoError, service |-> None]

\* --src: n [column, row] points.
SrcOf(n) == [i \in 1..n |-> <<10 * i, 10 * i>>]

\* The command lines: every option given or not.
camera_config_args ==
    { [cmd_idle EXCEPT !.pc = "prompts", !.src = a.src, !.dst = a.dst, !.z_0 = a.z_0,
                       !.h_ref = a.h_ref, !.resolution = a.resolution,
                       !.window_size = a.window_size, !.shapefile = a.shapefile,
                       !.crs = a.crs, !.crs_gcps = a.crs_gcps, !.corners = a.corners] :
        a \in [src : {None} \cup {Some(SrcOf(n)) : n \in {2, MaxDst}},
               dst : {None} \cup {Some(DstOf(n)) : n \in 1..MaxDst},
               z_0 : {None, Some(15)},
               h_ref : {None, Some(2)},
               resolution : {None, Some(5)},
               window_size : {None, Some(10)},
               shapefile : {None, Some("gcps.shp")},
               crs : {None, Some(32735)},
               crs_gcps : {None, Some(4326)},
               corners : {None, Some(SrcOf(4))}] }

\* What the operator may type at the z_0 and at the h_ref prompt (0 is the
\* default), and what cli_utils.read_shape may find in the shapefile.
PromptAnswers == {0, 7}

ShapeFiles == { [dst |-> DstOf(n), crs |-> crs] : n \in {2, MaxDst}, crs \in {None, Some(4326)} }

\* main.py 185-192: the prompts for the options not given.
camera_config_prompts_m_h_ref(c, ans_z_0, ans_h_ref) ==
    [c EXCEPT !.z_0 = IF c.z_0 = None THEN Some(ans_z_0) ELSE @,
              !.h_ref = IF c.h_ref = None THEN Some(ans_h_ref) ELSE @,
              !.resolution = IF c.resolution = None THEN Some(5) ELSE @,
              !.window_size = IF c.window_size = None THEN Some(10) ELSE @,
              !.pc = "dst"]

camera_config_prompts(c, ans_z_0, ans_h_ref) ==
    [c EXCEPT !.z_0 = IF c.z_0 = None THEN Some(ans_z_0) ELSE @,
              !.href = IF c.h_ref = None THEN Some(ans_h_ref) ELSE @,
              !.resolution = IF c.resolution = None THEN Some(5) ELSE @,
              !.window_size = IF c.window_size = None THEN Some(10) ELSE @,
              !.pc = "dst"]

\* main.py 193-203: the destination points, from --dst or from the shapefile.
camera_config_dst(c, shape) ==
    LET c1 == IF c.shapefile # None /\ c.dst = None
              THEN [c EXCEPT !.dst = Some(shape.dst), !.crs_gcps = shape.crs]
              ELSE c
    IN  IF c1.dst # None THEN [c1 EXCEPT !.pc = "src"]
        ELSE [c1 EXCEPT !.pc = "error",
                        !.error = [msg |-> "No destination control points",
                                   supplied |-> 0, required |-> 0]]

\* `not src`: no source points given.
not_given(o) == IF o = None THEN TRUE ELSE Val(o) = <<>>

\* main.py 215-216: the points that came back from the interactive session.
camera_config_check_src_m_none(c, src) ==
    [c EXCEPT !.src = Some(src), !.interactive = TRUE, !.pc = "crs"]

camera_config_check_src(c, src) ==
    LET c1 == [c EXCEPT !.src = Some(src), !.interactive = TRUE]
    IN  IF Len(src) # Len(Val(c1.dst))
        THEN [c1 EXCEPT !.pc = "error",
                        !.error = [msg |-> "You have not provided enough source points",
                                   supplied |-> Len(src), required |-> Len(Val(c1.dst))]]
        ELSE [c1 EXCEPT !.pc = "crs"]

\* main.py 217-225: the crs check and the gcps dictionary.
camera_config_gcps(c) ==
    IF c.crs = None /\ c.crs_gcps # None
    THEN [c EXCEPT !.pc = "error",
                   !.error = [msg |-> "--crs is None while --crs_gcps is given",
                              supplied |-> 0, required |-> 0]]
    ELSE [c EXCEPT !.gcps = Some([src |-> c.src, dst |-> Val(c.dst), z_0 |-> c.z_0,
                                  h_ref |-> c.h_ref, crs |-> c.crs_gcps]),
                   !.pc = "corners"]

\* main.py 237-247: the call of pyorc.service.camera_config.
camera_config_service(c) ==
    [c EXCEPT !.service = Some([gcps |-> Val(c.gcps), crs |-> c.crs,
                                resolution |-> c.resolution,
                                window_size |-> c.window_size, corners |-> c.corners]),
              !.pc = "done"]

\* An on_close error that reaches the command.
session_error(s) ==
    [msg |-> "Aborting because you have not supplied all ground control points",
     supplied |-> s.raised[1].supplied, required |-> s.raised[1].required]

\* One interactive session from its first to its last event: k left-clicks
\* on the image, the i-th at the i-th of four places, then the Done button
\* (when it is active) or the window's close button.
ClickPlaces == << <<20, 20>>, <<21, 100>>, <<100, 99>>, <<101, 20>> >>

ClickAt(i) ==
    LET q == ClickPlaces[((i - 1) % 4) + 1]
    IN  [button |-> LEFT, inaxes |-> "ax", xdata |-> Some(q[1]), ydata |-> Some(q[2])]

RECURSIVE click_times(_, _, _)
click_times(s, i, k) ==
    IF i > k THEN s
    ELSE click_times(on_release(on_press(s, ClickAt(i)), ClickAt(i)), i + 1, k)

session(s, k, by_done) ==
    LET s1 == click_times(s, 1, k)
    IN  IF by_done /\ s1.button3_active THEN close_window(s1, ClickAt(1))
        ELSE on_close([s1 EXCEPT !.fig_open = FALSE])

\* No selector yet.
no_selector == [GcpSelect_init(<<>>, FALSE) EXCEPT !.cls = "none", !.fig_open = FALSE]

(***************************************************************************)
(* The session: construction, then one callback per step                   *)
(***************************************************************************)
\* A GcpSelect for 1..MaxDst destination points (its crs only styles the
\* map), or an AoiSelect over the control points of a camera configuration
\* with or without a crs.
Selectors ==
    { GcpSelect_init(DstOf(n), FALSE) : n \in 1..MaxDst }
    \cup { AoiSelect_init(DstOf(n), has_crs) : n \in {2, MaxDst}, has_crs \in BOOLEAN }

Init ==
    /\ self \in Selectors
    /\ hist = hist_init
    /\ cmd = cmd_idle

\* button_press_event
OnPress(event) ==
    /\ self.fig_open
    /\ "button_press_event" \in self.connected
    /\ self' = on_press(self, event)
    /\ hist' = hist_press(hist)
    /\ UNCHANGED cmd

\* motion_notify_event
OnMove(event) ==
    /\ self.fig_open
    /\ "motion_notify_event" \in self.connected
    /\ self' = on_move(self, event)
    /\ hist' = hist_move(hist)
    /\ UNCHANGED cmd

\* button_release_event
OnRelease(event) ==
    /\ self.fig_open
    /\ "button_release_event" \in self.connected
    /\ self' = on_release(self, event)
    /\ hist' = hist_release(hist, self, event)
    /\ UNCHANGED cmd

\* The Camera button is clicked.
SwitchToAx ==
    /\ self.fig_open
    /\ \E event \in {e \in Events : e.inaxes = "ax_button" /\ e.button = LEFT} :
          self' = switch_to_ax(self, event)
    /\ hist' = hist_switch(hist)
    /\ UNCHANGED cmd

\* The Map button is clicked.
SwitchToAxGeo ==
    /\ self.fig_open
    /\ \E event \in {e \in Events : e.inaxes = "ax_button" /\ e.button = LEFT} :
          self' = switch_to_ax_geo(self, event)
    /\ hist' = hist_switch(hist)
    /\ UNCHANGED cmd

\* The Done button is clicked; an inactive button ignores the pointer.
CloseWindow ==
    /\ self.fig_open
    /\ self.button3_active
    /\ \E event \in {e \in Events : e.inaxes = "ax_button" /\ e.button = LEFT} :
          self' = close_window(self, event)
    /\ hist' = hist_close(hist)
    /\ UNCHANGED cmd

\* The operator closes the window: close_event.
OnClose ==
    /\ self.fig_open
    /\ "close_event" \in self.connected
    /\ self' = on_close([self EXCEPT !.fig_open = FALSE])
    /\ hist' = hist_close(hist)
    /\ UNCHANGED cmd

\* on_press and on_move do not read their event: one event per button stands
\* for all of them.
PointerEvents == {e \in Events : e.inaxes = "none"}

Next ==
    \/ \E event \in PointerEvents : OnPress(event)
    \/ \E event \in PointerEvents : OnMove(event)
    \/ \E event \in Events : OnRelease(event)
    \/ SwitchToAx
    \/ SwitchToAxGeo
    \/ CloseWindow
    \/ OnClose

Spec == Init /\ [][Next]_vars

(***************************************************************************)
(* The camera_config command, one step per part of the function            *)
(***************************************************************************)
InitCli ==
    /\ self = no_selector
    /\ hist = hist_init
    /\ cmd \in camera_config_args

CliPrompts ==
    /\ cmd.pc = "prompts"
    /\ \E ans_z_0 \in PromptAnswers, ans_h_ref \in PromptAnswers :
          cmd' = camera_config_prompts(cmd, ans_z_0, ans_h_ref)
    /\ UNCHANGED <<self, hist>>

CliDestination ==
    /\ cmd.pc = "dst"
    /\ \E shape \in ShapeFiles : cmd' = camera_config_dst(cmd, shape)
    /\ UNCHANGED <<self, hist>>

\* --src was given, or the operator does not confirm the interactive session.
CliSourceSkipped ==
    /\ cmd.pc = "src"
    /\ cmd' = [cmd EXCEPT !.pc = "crs"]
    /\ UNCHANGED <<self, hist>>

\* cli_utils.get_gcps_interactive: a GcpSelect session.
CliGcpSession ==
    /\ cmd.pc = "src"
    /\ not_given(cmd.src)
    /\ \E k \in 0..(Len(Val(cmd.dst)) + 1), by_done \in BOOLEAN :
          self' = session(GcpSelect_init(Val(cmd.dst), cmd.crs # None), k, by_done)
    /\ cmd' = [cmd EXCEPT !.pc = "gcps_back"]
    /\ UNCHANGED hist

\* The error on_close raised comes up through the event loop.
CliSessionRaises ==
    /\ cmd.pc \in {"gcps_back", "corners_back"}
    /\ self.raised # <<>>
    /\ cmd' = [cmd EXCEPT !.pc = "error", !.error = session_error(self)]
    /\ UNCHANGED <<self, hist>>

\* The event loop has kept the error, if any, to itself; selector.src comes
\* back.
CliGcpsReturned ==
    /\ cmd.pc = "gcps_back"
    /\ cmd' = camera_config_check_src(cmd, self.src)
    /\ UNCHANGED <<self, hist>>

CliGcps ==
    /\ cmd.pc = "crs"
    /\ cmd' = camera_config_gcps(cmd)
    /\ UNCHANGED <<self, hist>>

\* --corners was given, or the operator does not confirm the session.
CliCornersSkipped ==
    /\ cmd.pc = "corners"
    /\ cmd' = [cmd EXCEPT !.pc = "service"]
    /\ UNCHANGED <<self, hist>>

\* cli_utils.get_corners_interactive: an AoiSelect session.
CliCornerSession ==
    /\ cmd.pc = "corners"
    /\ not_given(cmd.corners)
    /\ \E k \in 0..(AoiRequiredClicks + 1), by_done \in BOOLEAN :
          self' = session(AoiSelect_init(Val(cmd.gcps).dst, cmd.crs # None), k, by_done)
    /\ cmd' = [cmd EXCEPT !.pc = "corners_back"]
    /\ UNCHANGED hist

CliCornersReturned ==
    /\ cmd.pc = "corners_back"
    /\ cmd' = [cmd EXCEPT !.corners = Some(self.src), !.pc = "service"]
    /\ UNCHANGED <<self, hist>>

CliService ==
    /\ cmd.pc = "service"
    /\ cmd' = camera_config_service(cmd)
    /\ UNCHANGED <<self, hist>>

NextCli ==
    \/ CliPrompts
    \/ CliDestination
    \/ CliSourceSkipped
    \/ CliGcpSession
    \/ CliSessionRaises
    \/ CliGcpsReturned
    \/ CliGcps
    \/ CliCornersSkipped
    \/ CliCornerSession
    \/ CliCornersReturned
    \/ CliService

SpecCli == InitCli /\ [][NextCli]_vars


(***************************************************************************)
(* Claims                                                                  *)
(***************************************************************************)

\* C1: once the session is closed (by the window or by Done), on_close has
\* raised a usage error if and only if len(src) differs from required_clicks,
\* and every error raised reports the required and the actual count.
C1_CloseRaisesIffIncomplete ==
    self.n_on_close > 0 =>
        /\ (self.raised # <<>>) <=> (Len(self.src) # self.required_clicks)
        /\ \A i \in 1..Len(self.raised) :
              /\ self.raised[i].required = self.required_clicks
              /\ self.raised[i].supplied = Len(self.src)

\* A session of 4 required points closed with 3: the error reports 4 and 3.
C1_Witness ==
    /\ ~self.fig_open
    /\ self.required_clicks = 4
    /\ Len(self.src) = 3
    /\ self.raised = <<[required |-> 4, supplied |-> 3]>>

\* C2: after exactly required_clicks valid left-clicks and no right-click,
\* src holds required_clicks points: the clicked pixel positions in click
\* order.
C2_ClicksInOrder ==
    (hist.noRight /\ hist.nLeft = self.required_clicks) =>
        /\ Len(self.src) = self.required_clicks
        /\ self.src = hist.leftLog

\* The four clicks (10,10), (10,50), (50,50), (50,10) of a GcpSelect with
\* four destination points.
C2_Witness ==
    /\ self.cls = "GcpSelect"
    /\ self.required_clicks = 4
    /\ hist.noRight
    /\ hist.nLeft = 4
    /\ self.src = << <<10, 10>>, <<10, 50>>, <<50, 50>>, <<50, 10>> >>

\* C3: 0 <= len(src) <= required_clicks in every state, required_clicks
\* being len(dst) for a GcpSelect and 4 for an AoiSelect.
C3_SrcBounded ==
    /\ 0 <= Len(self.src)
    /\ Len(self.src) <= self.required_clicks
    /\ self.required_clicks = IF self.cls = "GcpSelect" THEN Len(self.dst) ELSE 4

\* An AoiSelect over two control points, full at four corners.
C3_Witness ==
    /\ self.cls = "AoiSelect"
    /\ Len(self.dst) = 2
    /\ Len(self.src) = self.required_clicks

\* C4: the Done button is active if and only if len(src) = required_clicks.
C4_DoneIffReady == self.button3_active <=> (Len(self.src) = self.required_clicks)

\* Done disabled again by the undo of the add that had enabled it.
C4_Witness ==
    /\ hist.last = "add_undo"
    /\ hist.snap.n_markers = self.required_clicks - 1
    /\ ~self.button3_active

\* C5: an accepted add immediately followed by a remove restores src, the
\* number of markers, the Done enablement and the polygon.
C5_AddRemoveRoundTrip == hist.last = "add_undo" => Seen(self) = hist.snap

\* The fourth corner of an AoiSelect added and removed again.
C5_Witness ==
    /\ hist.last = "add_undo"
    /\ self.cls = "AoiSelect"
    /\ Len(self.src) = 3

\* C6: a right-click while src is empty changes nothing: src and the marker
\* list stay empty, Done stays disabled, nothing that can be seen changes.
C6_EmptyUndoNoOp ==
    [][\A event \in Events :
          (IsClick(self) /\ event.button = RIGHT /\ Len(self.src) = 0 /\ OnRelease(event))
          => /\ self'.src = <<>>
             /\ self'.pts_t = <<>>
             /\ ~self'.button3_active
             /\ Seen(self') = Seen(self)
             /\ self'.p = self.p
             /\ self'.p_geo_selected = self.p_geo_selected]_vars

\* A right-click on the image with no points, after points had been removed.
C6_Witness ==
    /\ hist.last = "empty_undo"
    /\ ~hist.noRight
    /\ self.src = <<>>

\* C7: src is the stack of the accepted adds (push) and the removes (pop).
C7_StackDiscipline == self.src = hist.stack

\* required_clicks = 3: p1, p2, p3 added, p3 removed, p4 added.
C7_Witness ==
    /\ self.required_clicks = 3
    /\ ~hist.noRight
    /\ hist.last = "add"
    /\ self.src = << <<10, 10>>, <<10, 50>>, <<50, 10>> >>

\* C8: a view switch changes the visibility of the two views and nothing
\* else: src, dst, the markers, the Done enablement and the polygon stay.
C8_SwitchKeepsState ==
    [][(SwitchToAx \/ SwitchToAxGeo) =>
          /\ self'.src = self.src
          /\ self'.dst = self.dst
          /\ Len(self'.pts_t) = Len(self.pts_t)
          /\ self'.button3_active = self.button3_active
          /\ self'.p_bbox = self.p_bbox
          /\ self'.p_bbox_geo = self.p_bbox_geo
          /\ self' = [self EXCEPT !.ax_visible = self'.ax_visible,
                                  !.ax_geo_visible = self'.ax_geo_visible]]_vars

\* The map view of an AoiSelect whose polygon is drawn.
C8_Witness ==
    /\ self.ax_geo_visible
    /\ ~self.ax_visible
    /\ self.cls = "AoiSelect"
    /\ self.p_bbox # EmptyPolygon

\* C9: in an AoiSelect the polygon, on the image and on the map, has
\* vertices if and only if len(src) = 4.
C9_PolygonIffFour ==
    self.cls = "AoiSelect" =>
        /\ (self.p_bbox # EmptyPolygon) <=> (Len(self.src) = 4)
        /\ (self.p_bbox_geo # EmptyPolygon) <=> (Len(self.src) = 4)

\* The polygon of a configuration with a crs, just computed by the 4th add.
C9_Witness ==
    /\ self.cls = "AoiSelect"
    /\ self.has_crs
    /\ hist.last = "add"
    /\ Len(self.src) = 4
    /\ self.p_bbox # EmptyPolygon
    /\ self.p_bbox_geo # EmptyPolygon

\* C10: after the 4th accepted add of an AoiSelect the polygon has exactly 4
\* vertices, the i-th being the i-th corner clicked (the one labelled
\* upstream-left, downstream-left, downstream-right, upstream-right), on the
\* image and, reprojected, on the map.
C10_PolygonInClickOrder ==
    (self.cls = "AoiSelect" /\ Len(hist.stack) = 4) =>
        /\ Len(self.p_bbox) = 4
        /\ Len(self.p_bbox_geo) = 4
        /\ \A i \in 1..4 :
              /\ self.p_bbox[i] = hist.stack[i]
              /\ self.pts_t[i].label = corner_labels[i]
              /\ self.p_bbox_geo[i] = IF self.has_crs
                                      THEN <<"epsg4326", <<"world", hist.stack[i]>>>>
                                      ELSE <<"world", hist.stack[i]>>

\* Four distinct corners, the last one just added.
C10_Witness ==
    /\ self.cls = "AoiSelect"
    /\ hist.last = "add"
    /\ self.p_bbox = << <<10, 10>>, <<10, 50>>, <<50, 50>>, <<50, 10>> >>

\* C12 as stated: whenever len(src) > 0, every right-button press-release
\* removes the last source point, whatever the view, the place and the
\* pointer movement.
C12_RightReleaseAlwaysRemoves ==
    [][\A event \in Events :
          (hist.pressed /\ event.button = RIGHT /\ Len(self.src) > 0 /\ OnRelease(event))
          => self'.src = DelLast(self.src)]_vars

\* C12 amended: a right-button press-release removes the last source point
\* (and its marker) when the pointer did not move, the image view is visible
\* and the pointer is over the image axes; a release after the pointer
\* moved, outside the image axes or while the image view is hidden leaves
\* src and the markers as they are.
C12_RightClickRemoves ==
    /\ hist.last = "undo" =>
          /\ self.src = DelLast(hist.snap.src)
          /\ Len(self.pts_t) = hist.snap.n_markers - 1
    /\ hist.last = "add_undo" =>
          /\ self.src = hist.snap.src
          /\ Len(self.pts_t) = hist.snap.n_markers
    /\ hist.last \in {"drag", "outside", "hidden"} =>
          /\ self.src = hist.snap.src
          /\ Len(self.pts_t) = hist.snap.n_markers

\* One of two points of a GcpSelect removed by a right-click.
C12_Witness ==
    /\ self.cls = "GcpSelect"
    /\ hist.last = "undo"
    /\ Len(hist.snap.src) = 2
    /\ Len(self.src) = 1

\* The active view's surface: the image axes while the image view is
\* visible, the map axes while the map view is.
OverActiveView(s, event) ==
    \/ s.ax_visible /\ event.inaxes = "ax"
    \/ s.ax_geo_visible /\ event.inaxes = "ax_geo"

\* C13 as stated: on either view, a stationary left press-release over the
\* active view, below the cap, appends the release location to src.
C13_LeftClickAddsOnActiveView ==
    [][\A event \in Events :
          (hist.pressed /\ ~hist.moved /\ event.button = LEFT /\ event.xdata # None
             /\ Len(self.src) < self.required_clicks /\ OverActiveView(self, event)
             /\ OnRelease(event))
          => self'.src = Append(self.src, PixelOf(event))]_vars

\* C13 amended: while the image view is active, a stationary left
\* press-release over the image axes, below the cap, appends exactly one
\* point, the release location rounded to pixels; while the map view is
\* active no release adds a point.
C13_LeftClickAddsOnImageView ==
    [][/\ \A event \in Events :
             (hist.pressed /\ ~hist.moved /\ event.button = LEFT /\ event.xdata # None
                /\ Len(self.src) < self.required_clicks
                /\ self.ax_visible /\ event.inaxes = "ax" /\ OnRelease(event))
             => self'.src = Append(self.src, PixelOf(event))
       /\ ~self.ax_visible => self'.src = self.src]_vars

\* A point added on the image view after the map view had been shown.
C13_Witness ==
    /\ hist.last = "add"
    /\ hist.noRight
    /\ self.ax_visible
    /\ self.src = << <<10, 50>> >>

\* C14: a release after the pointer moved (the step that ends a press during
\* which the pointer moved) changes neither src nor the markers nor the Done
\* enablement (nor the polygon), for any button, and while no button is held,
\* so after every release, the press and move flags are both false.
C14_DragIsNoClick ==
    /\ [](~hist.pressed => (~self.press /\ ~self.move))
    /\ [][(IsDrag(hist) /\ ~hist'.pressed) =>
             /\ self'.src = self.src
             /\ self'.pts_t = self.pts_t
             /\ self'.button3_active = self.button3_active
             /\ self'.p_bbox = self.p_bbox]_vars

\* A drag just released while points are selected.
C14_Witness ==
    /\ hist.last = "drag"
    /\ Len(self.src) > 0
    /\ ~self.press
    /\ ~self.move

\* C15: a left-click while len(src) = required_clicks changes nothing: src,
\* the markers, Done (enabled) and the polygon (present in an AoiSelect).
C15_RedundantAddIgnored ==
    hist.last = "full_left" =>
        /\ Seen(self) = hist.snap
        /\ Len(self.src) = self.required_clicks
        /\ self.button3_active
        /\ self.cls = "AoiSelect" => self.p_bbox # EmptyPolygon

\* A fifth valid left-click on a full AoiSelect.
C15_Witness ==
    /\ self.cls = "AoiSelect"
    /\ hist.noRight
    /\ hist.nLeft = self.required_clicks + 1
    /\ hist.last = "full_left"
    /\ self.p_bbox # EmptyPolygon

\* C16 as stated: a click whose inaxes is not the image axes, or that has no
\* data coordinate, changes nothing and raises nothing, for any button.
C16_OutsideOrNoDataIgnored ==
    [][\A event \in Events :
          (IsClick(self) /\ (event.inaxes # "ax" \/ event.xdata = None) /\ OnRelease(event))
          => /\ Seen(self') = Seen(self)
             /\ self'.pts_t = self.pts_t
             /\ self'.raised = self.raised]_vars

\* C16 amended: a click whose inaxes is not the image axes (any button), or
\* a left-click without data coordinate, changes nothing and raises nothing.
C16_OutsideIgnored ==
    hist.last = "outside" =>
        /\ Seen(self) = hist.snap
        /\ self.raised = <<>>

\* A click outside the image axes while points are selected.
C16_Witness ==
    /\ hist.last = "outside"
    /\ Len(self.src) > 0
    /\ self.ax_visible

\* C17: exactly one of the two views is visible: the image view at the
\* start, and after a switch the view switched to.
C17_OneViewVisible ==
    /\ self.ax_visible /\ ~self.ax_geo_visible
    /\ [](self.ax_visible # self.ax_geo_visible)
    /\ [][/\ SwitchToAx => (self'.ax_visible /\ ~self'.ax_geo_visible)
          /\ SwitchToAxGeo => (self'.ax_geo_visible /\ ~self'.ax_visible)]_vars

\* The map view shown before any point is selected.
C17_Witness ==
    /\ self.ax_geo_visible
    /\ ~self.ax_visible
    /\ self.src = <<>>
    /\ self.fig_open

\* C18 as stated: the selected points plotted on the map view are as many as
\* those plotted on the image view, which are as many as src has; in an
\* AoiSelect the polygon is on both views or on none.
C18_MarkersOnBothViews ==
    /\ Len(map_selected(self).x) = Len(self.p.x)
    /\ Len(self.p.x) = Len(self.src)
    /\ self.cls = "AoiSelect" =>
          ((self.p_bbox # EmptyPolygon) <=> (self.p_bbox_geo # EmptyPolygon))

\* C19: there are as many markers as source points, the i-th marker at the
\* i-th point; an add creates one marker, an undo destroys the last one, and
\* a step that keeps src keeps the markers.
C19_MarkerPerPoint ==
    /\ [](/\ Len(self.pts_t) = Len(self.src)
          /\ \A i \in 1..Len(self.pts_t) :
                <<np_round(self.pts_t[i].xy[1]), np_round(self.pts_t[i].xy[2])>>
                   = self.src[i])
    /\ [][/\ Len(self'.src) = Len(self.src) + 1 => DelLast(self'.pts_t) = self.pts_t
          /\ Len(self'.src) = Len(self.src) - 1 => self'.pts_t = DelLast(self.pts_t)
          /\ Len(self'.src) = Len(self.src) => self'.pts_t = self.pts_t]_vars

\* Two markers left after the third point of a GcpSelect was undone.
C19_Witness ==
    /\ self.cls = "GcpSelect"
    /\ hist.last = "add_undo"
    /\ Len(self.pts_t) = 2
    /\ Len(self.src) = 2

\* C20: the i-th marker carries the label i in a GcpSelect and the i-th
\* corner name in an AoiSelect, also after undos and new adds.
C20_LabelsByPosition ==
    \A i \in 1..Len(self.pts_t) :
        IF self.cls = "GcpSelect" THEN self.pts_t[i].label = i
        ELSE self.pts_t[i].label = corner_labels[i]

\* The second corner added again after an undo.
C20_Witness ==
    /\ self.cls = "AoiSelect"
    /\ ~hist.noRight
    /\ hist.last = "add"
    /\ Len(self.pts_t) = 2
    /\ self.pts_t[2].label = "downstream-left"

\* C11: pyorc.service.camera_config is never called with interactively
\* collected source points that are not as many as the destination points;
\* once such points have come back the command has ended in a usage error
\* that names the supplied and the required count.
C11_NoPartialSrcToService ==
    /\ (cmd.service # None /\ cmd.interactive) =>
          Len(Val(Val(cmd.service).gcps.src)) = Len(Val(cmd.service).gcps.dst)
    /\ (cmd.interactive /\ Len(Val(cmd.src)) # Len(Val(cmd.dst))) =>
          /\ cmd.pc = "error"
          /\ cmd.service = None
          /\ cmd.error.supplied = Len(Val(cmd.src))
          /\ cmd.error.required = Len(Val(cmd.dst))

\* Three of four points clicked, the window closed, the points returned:
\* the command ends with "3/4".
C11_Witness ==
    /\ cmd.interactive
    /\ cmd.pc = "error"
    /\ cmd.error.supplied = 3
    /\ cmd.error.required = 4
    /\ cmd.service = None

\* C21: in a GcpSelect the destination points highlighted on the map are
\* exactly the first len(src) of dst, in order: one more after an accepted
\* add, one fewer after an undo, none when src is empty.
C21_SelectedIsPrefix ==
    self.cls = "GcpSelect" =>
        /\ Len(self.src) <= Len(self.dst)
        /\ self.p_geo_selected.x = [i \in 1..Len(self.src) |-> self.dst[i][1]]
        /\ self.p_geo_selected.y = [i \in 1..Len(self.src) |-> self.dst[i][2]]
        /\ hist.last = "add" => Len(self.p_geo_selected.x) = Len(hist.snap.src) + 1
        /\ hist.last = "undo" => Len(self.p_geo_selected.x) = Len(hist.snap.src) - 1
        /\ self.src = <<>> => self.p_geo_selected = EmptyData

\* Three points selected, then the third undone: the first two destination
\* points stay highlighted.
C21_Witness ==
    /\ self.cls = "GcpSelect"
    /\ Len(self.dst) = 4
    /\ hist.last = "undo"
    /\ Len(hist.snap.src) = 3
    /\ self.p_geo_selected = [x |-> <<5, 6>>, y |-> <<52, 53>>]

\* C22: the Done button is active only while len(src) = required_clicks, and
\* closing through it runs on_close twice (the close callback, then the call
\* in close_window) with src complete: no usage error is raised.
C22_DoneNeverRaises ==
    /\ [](self.button3_active => Len(self.src) = self.required_clicks)
    /\ [][CloseWindow =>
             /\ Len(self.src) = self.required_clicks
             /\ self'.src = self.src
             /\ self'.n_on_close = 2
             /\ self'.raised = <<>>
             /\ ~self'.fig_open]_vars

\* A GcpSelect of four points closed through Done.
C22_Witness ==
    /\ self.cls = "GcpSelect"
    /\ ~self.fig_open
    /\ self.n_on_close = 2
    /\ Len(self.src) = 4
    /\ self.raised = <<>>

\* C23: when --h_ref is not given, the answer to the h_ref prompt is the h_ref
\* of the gcps handed to the service, as the answer to the z_0 prompt is its
\* z_0; h_ref is not left unset.
C23_PromptedHrefInGcps ==
    cmd.service # None =>
        /\ Val(cmd.service).gcps.z_0 # None
        /\ Val(cmd.service).gcps.h_ref # None
        /\ cmd.href # None => Val(cmd.service).gcps.h_ref = cmd.href

====
